---- MODULE Spec2Model ----
(***************************************************************************)
(* Loan-Intelligence: the scoring engine (ml_model.py), the applications   *)
(* file (data.py) and the application form (01_Apply_for_Loan.py).         *)
(*                                                                         *)
(* Python floats are modelled as exact rationals <<n, d>> in lowest terms  *)
(* with d > 0, plus Inf == <<1, 0>> for float('inf'); the rounding of      *)
(* binary doubles is not modelled.  Python ints are TLA+ integers.         *)
(***************************************************************************)
EXTENDS Integers, Sequences, FiniteSets, TLC

(***************************************************************************)
(* Exact rational arithmetic standing for Python float arithmetic.         *)
(***************************************************************************)
Abs(x) == IF x < 0 THEN -x ELSE x

RECURSIVE GCD(_, _)
GCD(a, b) == IF b = 0 THEN a ELSE GCD(b, a % b)

\* n/d in lowest terms with a positive denominator
Reduce(n, d, g) == IF d < 0 THEN <<(-n) \div g, (-d) \div g>> ELSE <<n \div g, d \div g>>
Rat(n, d) == Reduce(n, d, GCD(Abs(n), Abs(d)))

Inf == <<1, 0>>
IsInf(a) == a[2] = 0
FromInt(i) == <<i, 1>>

AddOver(a, b, g) ==
    Rat(a[1] * (b[2] \div g) + b[1] * (a[2] \div g), (a[2] \div g) * b[2])
RAdd(a, b) == AddOver(a, b, GCD(a[2], b[2]))
RSub(a, b) == RAdd(a, <<-b[1], b[2]>>)
MulCross(x, y) == <<x[1] * y[1], x[2] * y[2]>>
RMul(a, b) == MulCross(Rat(a[1], b[2]), Rat(b[1], a[2]))
\* a / b for b > 0; inf / b is inf
RDiv(a, b) == IF IsInf(a) THEN Inf ELSE RMul(a, Rat(b[2], b[1]))
\* a <= b, where Inf is above every finite value
RLe(a, b) ==
    IF IsInf(b) THEN TRUE
    ELSE IF IsInf(a) THEN FALSE
    ELSE a[1] * b[2] <= b[1] * a[2]
RLt(a, b) == ~RLe(b, a)
\* Python's max(a, b) and min(a, b): the first argument wins a tie
RMax(a, b) == IF RLt(a, b) THEN b ELSE a
RMin(a, b) == IF RLt(b, a) THEN b ELSE a
\* int(x) of a finite float: truncation toward zero
TruncInt(a) == IF a[1] >= 0 THEN a[1] \div a[2] ELSE -((-a[1]) \div a[2])

(***************************************************************************)
(* Loosely-typed application mappings.  A mapping gives each of the six    *)
(* keys a value <<tag, n, d>>: the key is absent, holds the number n/d,    *)
(* holds None or holds the empty string.                                   *)
(***************************************************************************)
FieldNames ==
    {"loan_amount", "loan_term", "annual_income", "employment_length",
     "credit_score", "monthly_debt"}

Absent   == <<"absent", 0, 1>>
NoneV    == <<"none", 0, 1>>
EmptyStr == <<"str", 0, 1>>
Num(n)   == <<"num", n, 1>>
Frac(n, d) == <<"num", n, d>>

\* application_data.get(key, 0)
Get(application_data, key) ==
    IF application_data[key] = Absent THEN Num(0) ELSE application_data[key]

\* float(v) and int(v) raise TypeError on None and ValueError on ''
Coercible(v) == v[1] = "num"
PyFloat(v) == Rat(v[2], v[3])
\* variant: round(v), halves upward
PyIntRounded(v) == (2 * v[2] + v[3]) \div (2 * v[3])
PyInt(v) == TruncInt(Rat(v[2], v[3]))

ExtractRaises(application_data, keys) ==
    \E k \in keys : ~Coercible(Get(application_data, k))

\* the one-row DataFrame of predict_approval
features_of(application_data) ==
    [loan_amount       |-> PyFloat(Get(application_data, "loan_amount")),
     loan_term         |-> PyInt(Get(application_data, "loan_term")),
     annual_income     |-> PyFloat(Get(application_data, "annual_income")),
     employment_length |-> PyInt(Get(application_data, "employment_length")),
     credit_score      |-> PyInt(Get(application_data, "credit_score")),
     monthly_debt      |-> PyFloat(Get(application_data, "monthly_debt"))]

(***************************************************************************)
(* RuleBasedModel.predict_proba: the class-1 probability of one row.       *)
(***************************************************************************)
Zero == FromInt(0)
One  == FromInt(1)

\* variant: the annual income is taken for the monthly one
monthly_income_annual(annual_income) == annual_income

\* monthly_income = annual_income / 12
monthly_income_of(annual_income) == RDiv(annual_income, FromInt(12))

\* dti_ratio = monthly_debt / monthly_income if monthly_income > 0 else 1
dti_ratio_of(monthly_income, monthly_debt) ==
    IF RLt(Zero, monthly_income) THEN RDiv(monthly_debt, monthly_income) ELSE One

loan_to_income_of(loan_amount, annual_income) ==
    IF RLt(Zero, annual_income) THEN RDiv(loan_amount, annual_income) ELSE One

\* variant: the credit factor is not clamped from below
credit_factor_unclamped(credit_score) == RMin(One, Rat(credit_score - 300, 500))

\* variant: the credit factor falls as the credit score rises
credit_factor_inverted(credit_score) ==
    RMax(Zero, RMin(One, Rat(800 - credit_score, 500)))

credit_factor_of(credit_score) ==
    RMax(Zero, RMin(One, Rat(credit_score - 300, 500)))

\* variant: the debt factor is the ratio itself
dti_factor_raw(dti_ratio) == RMax(Zero, RMin(One, dti_ratio))

dti_factor_of(dti_ratio) == RMax(Zero, RMin(One, RSub(One, dti_ratio)))

lti_factor_of(loan_to_income) == RMax(Zero, RMin(One, RSub(One, loan_to_income)))

combine(credit_factor, dti_factor, lti_factor) ==
    RAdd(RAdd(RAdd(Rat(1, 2), RMul(Rat(1, 5), credit_factor)),
              RMul(Rat(3, 20), dti_factor)),
         RMul(Rat(3, 20), lti_factor))

clamp_score(score) == RMax(Rat(1, 20), RMin(Rat(19, 20), score))

predict_proba(X) ==
    clamp_score(
        combine(credit_factor_of(X.credit_score),
                dti_factor_of(dti_ratio_of(monthly_income_of(X.annual_income),
                                           X.monthly_debt)),
                lti_factor_of(loan_to_income_of(X.loan_amount, X.annual_income))))

\* variant: round(prob * 100), halves upward
score_rounded(prob) == TruncInt(RAdd(RMul(prob, FromInt(100)), Rat(1, 2)))

\* score = int(prob * 100)
score_of_prob(prob) == TruncInt(RMul(prob, FromInt(100)))

(***************************************************************************)
(* get_model_explanation: the four ladders.                                *)
(***************************************************************************)
\* variant: the bands exclude their lower bounds
credit_explanation_strict(credit_score) ==
    IF credit_score > 750
    THEN "Your excellent credit score is favorable for approval."
    ELSE IF credit_score > 700
    THEN "Your good credit score is a positive factor."
    ELSE IF credit_score > 650
    THEN "Your fair credit score may impact your approval odds."
    ELSE IF credit_score > 600
    THEN "Your below-average credit score is a concern."
    ELSE "Your credit score is too low for most standard loans."

credit_explanation(credit_score) ==
    IF credit_score >= 750
    THEN "Your excellent credit score is favorable for approval."
    ELSE IF credit_score >= 700
    THEN "Your good credit score is a positive factor."
    ELSE IF credit_score >= 650
    THEN "Your fair credit score may impact your approval odds."
    ELSE IF credit_score >= 600
    THEN "Your below-average credit score is a concern."
    ELSE "Your credit score is too low for most standard loans."

\* variant: the bands exclude their upper bounds
dti_explanation_strict(dti_ratio) ==
    IF RLt(dti_ratio, Rat(1, 5))
    THEN "Your very low debt-to-income ratio strongly favors approval."
    ELSE IF RLt(dti_ratio, Rat(9, 25))
    THEN "Your debt-to-income ratio is within acceptable limits."
    ELSE IF RLt(dti_ratio, Rat(43, 100))
    THEN "Your debt-to-income ratio is slightly elevated."
    ELSE "Your high debt-to-income ratio may limit approval chances."

dti_explanation(dti_ratio) ==
    IF RLe(dti_ratio, Rat(1, 5))
    THEN "Your very low debt-to-income ratio strongly favors approval."
    ELSE IF RLe(dti_ratio, Rat(9, 25))
    THEN "Your debt-to-income ratio is within acceptable limits."
    ELSE IF RLe(dti_ratio, Rat(43, 100))
    THEN "Your debt-to-income ratio is slightly elevated."
    ELSE "Your high debt-to-income ratio may limit approval chances."

payment_explanation(payment_to_income) ==
    IF RLe(payment_to_income, Rat(1, 10))
    THEN "The proposed loan payment is easily affordable relative to your income."
    ELSE IF RLe(payment_to_income, Rat(7, 25))
    THEN "The proposed loan payment is reasonably affordable relative to your income."
    ELSE "The proposed loan payment is high relative to your income."

\* variant: the conservative band excludes its upper bound
amount_explanation_strict(loan_amount, annual_income) ==
    IF RLt(loan_amount, RMul(annual_income, Rat(1, 2)))
    THEN "Your requested loan amount is conservative relative to your annual income."
    ELSE IF RLe(loan_amount, RMul(annual_income, FromInt(2)))
    THEN "Your requested loan amount is reasonable relative to your annual income."
    ELSE "Your requested loan amount is high relative to your annual income."

amount_explanation(loan_amount, annual_income) ==
    IF RLe(loan_amount, RMul(annual_income, Rat(1, 2)))
    THEN "Your requested loan amount is conservative relative to your annual income."
    ELSE IF RLe(loan_amount, RMul(annual_income, FromInt(2)))
    THEN "Your requested loan amount is reasonable relative to your annual income."
    ELSE "Your requested loan amount is high relative to your annual income."

ExplainKeys ==
    {"loan_amount", "loan_term", "annual_income", "credit_score", "monthly_debt"}

\* the derived metrics of get_model_explanation; float('inf') where the
\* divisor is not positive
raw_dti_ratio(monthly_income, monthly_debt) ==
    IF RLt(Zero, monthly_income) THEN RDiv(monthly_debt, monthly_income) ELSE Inf

\* variant: no payment is due on a loan term that is not positive
monthly_payment_zero(loan_amount, loan_term) ==
    IF loan_term > 0 THEN RDiv(loan_amount, FromInt(loan_term)) ELSE Zero

monthly_payment_of(loan_amount, loan_term) ==
    IF loan_term > 0 THEN RDiv(loan_amount, FromInt(loan_term)) ELSE Inf

payment_to_income_of(monthly_payment, monthly_income) ==
    IF RLt(Zero, monthly_income) THEN RDiv(monthly_payment, monthly_income) ELSE Inf

\* variant: the two ratio messages come in the other order
explanations_swapped(loan_amount, loan_term, annual_income, monthly_income, credit_score, monthly_debt) ==
    <<credit_explanation(credit_score),
      payment_explanation(
          payment_to_income_of(monthly_payment_of(loan_amount, loan_term),
                               monthly_income)),
      dti_explanation(raw_dti_ratio(monthly_income, monthly_debt)),
      amount_explanation(loan_amount, annual_income)>>

explanations_of(loan_amount, loan_term, annual_income, monthly_income, credit_score, monthly_debt) ==
    <<credit_explanation(credit_score),
      dti_explanation(raw_dti_ratio(monthly_income, monthly_debt)),
      payment_explanation(
          payment_to_income_of(monthly_payment_of(loan_amount, loan_term),
                               monthly_income)),
      amount_explanation(loan_amount, annual_income)>>

explanation_list(application_data) ==
    explanations_of(PyFloat(Get(application_data, "loan_amount")),
                    PyInt(Get(application_data, "loan_term")),
                    PyFloat(Get(application_data, "annual_income")),
                    monthly_income_of(PyFloat(Get(application_data, "annual_income"))),
                    PyInt(Get(application_data, "credit_score")),
                    PyFloat(Get(application_data, "monthly_debt")))

(***************************************************************************)
(* Bounds of the model and constants of the program.                       *)
(***************************************************************************)
\* rows of the applications file when the model starts (all of them decided)
HistBase == 8
\* applications saved during a run
MaxNew == 2
\* "at least 10 applications with decisions"
MinDecided == 10

(***************************************************************************)
(* State.                                                                  *)
(*   model_file     loan_approval_model.pkl                                *)
(*   apps_file      loan_applications.csv                                  *)
(*   session_state  st.session_state of one browser session                *)
(*   result         what the last call returned or raised                  *)
(***************************************************************************)
VARIABLES model_file, apps_file, session_state, result, users_file, inflight

vars == <<model_file, apps_file, session_state, result, users_file, inflight>>

Keys == FieldNames \cup {"model_score"}

NoData == [k \in Keys |-> Absent]

\* user_credentials.csv before the first create_user
NoUsers == [exists |-> FALSE, rows |-> <<>>]

\* the user sessions whose calls may interleave; each runs the script in its
\* own thread (or process) over the same files
Sessions == {1, 2}

App(la, lt, ai, el, cs, md) ==
    [k \in Keys |->
        CASE k = "loan_amount"       -> la
          [] k = "loan_term"         -> lt
          [] k = "annual_income"     -> ai
          [] k = "employment_length" -> el
          [] k = "credit_score"      -> cs
          [] k = "monthly_debt"      -> md
          [] OTHER                   -> Absent]

(***************************************************************************)
(* The persisted model artifact.  kind is "absent" (no file), "empty" (the *)
(* file open(MODEL_FILE, 'wb') left behind when pickle.dump raised before  *)
(* writing), "partial" (a write that failed part-way) or "learned" (a      *)
(* pickled RandomForestClassifier).  classes is the set of labels the      *)
(* forest was fitted on; forest stands for the fitted function.            *)
(***************************************************************************)
NoForest == <<Zero, Zero>>
FileAbsent  == [kind |-> "absent",  classes |-> {}, forest |-> NoForest]
FileEmpty   == [kind |-> "empty",   classes |-> {}, forest |-> NoForest]
FilePartial == [kind |-> "partial", classes |-> {}, forest |-> NoForest]
FileLearned(classes, forest) ==
    [kind |-> "learned", classes |-> classes, forest |-> forest]

\* os.path.exists(MODEL_FILE)
ModelFileExists(mf) == mf.kind # "absent"

\* A fitted forest is a deterministic function of the row with values in
\* [0, 1]: the mean over the trees of the class-1 share of the leaf the row
\* falls in.  It is modelled by a stump on credit_score with two leaves.
\* The leaf values are ones whose product with 100 truncates in double
\* arithmetic as it does exactly (0.58 * 100 is 57.99999999999999 in doubles).
Forests == {<<One, Zero>>, <<Rat(2, 3), Rat(5, 16)>>, <<Zero, One>>}
forest_proba(forest, X) == IF X.credit_score >= 650 THEN forest[1] ELSE forest[2]

\* storage faults a call can meet
Faults == {"none", "open_write", "dump", "read"}

(***************************************************************************)
(* The applications file.                                                  *)
(***************************************************************************)
NoFile == [exists |-> FALSE, rows |-> <<>>]

Row(id, applied, status, data, by, date) ==
    [application_id |-> id, application_date |-> applied, status |-> status,
     data |-> data, officer_notes |-> "", decision_date |-> date,
     decision_by |-> by]

BaseApp == App(Num(10000), Num(3), Num(50000), Num(1), Num(700), Num(1000))

\* n decided rows; with mixed, the first one is rejected and the rest approved
BaseHistory(n, mixed) ==
    [exists |-> TRUE,
     rows |-> [i \in 1..n |->
                 Row(i, "earlier", IF mixed /\ i = 1 THEN "rejected" ELSE "approved",
                     [BaseApp EXCEPT !["model_score"] = Num(89)],
                     "officer1", "date")]]

IsDecided(row) == row.status \in {"approved", "rejected"}

\* a session with no call in progress: df and model are the call's local
\* variables applications_df and model
IdleCall ==
    [pc |-> "idle", op |-> "none", args |-> <<>>, df |-> NoFile,
     model |-> FileAbsent, wrote |-> FALSE, raised |-> FALSE, err |-> "",
     score |-> <<>>, variant |-> "", returned |-> FALSE]

NoCalls == [s \in Sessions |-> IdleCall]

\* decided_apps of train_model_if_needed
decided_apps(af) == IF af.exists THEN SelectSeq(af.rows, IsDecided) ELSE <<>>

\* y = (decided_apps['status'] == 'approved').astype(int), as the set of labels
labels_of(decided) ==
    {IF decided[i].status = "approved" THEN 1 ELSE 0 : i \in 1..Len(decided)}

(***************************************************************************)
(* train_model_if_needed.  Returns the model file it leaves and whether it *)
(* raised.  forest is the function a fit would produce.                    *)
(***************************************************************************)
\* pickle.dump(model, f).  RuleBasedModel is a class local to
\* _create_rule_based_model, and pickle cannot pickle an instance of a local
\* class: it raises "Can't pickle local object" before writing a byte.
Picklable(kind) == kind = "learned"

\* with open(MODEL_FILE, 'wb') as f: pickle.dump(model, f)
save_model(mf, model, fault) ==
    IF fault = "open_write" THEN [file |-> mf, raised |-> TRUE]
    ELSE IF ~Picklable(model.kind) THEN [file |-> FileEmpty, raised |-> TRUE]
    ELSE IF fault = "dump" THEN [file |-> FilePartial, raised |-> TRUE]
    ELSE [file |-> model, raised |-> FALSE]

RuleModel == [kind |-> "rule", classes |-> {0, 1}, forest |-> NoForest]

\* the model the trainer chooses for this history
model_for(af, decided, forest) ==
    IF af.exists /\ Len(decided) >= MinDecided
    THEN FileLearned(labels_of(decided), forest)
    ELSE RuleModel

chosen_model(af, forest) == model_for(af, decided_apps(af), forest)

\* variant: a learned model is fitted again on every call
train_refit(mf, af, fault, forest) ==
    IF ModelFileExists(mf) /\ mf.kind # "learned"
    THEN [file |-> mf, raised |-> FALSE]
    ELSE save_model(mf, chosen_model(af, forest), fault)

\* variant: no existence check, every call fits and writes
train_always(mf, af, fault, forest) == save_model(mf, chosen_model(af, forest), fault)

train_model_if_needed(mf, af, fault, forest) ==
    IF ModelFileExists(mf)
    THEN [file |-> mf, raised |-> FALSE]
    ELSE save_model(mf, chosen_model(af, forest), fault)

(***************************************************************************)
(* predict_approval.                                                       *)
(***************************************************************************)
NoScore == <<>>

\* model.predict_proba(features)[0][1]: a forest fitted on one class has a
\* single column, and [0][1] raises IndexError
has_class1_column(model) == model.kind = "rule" \/ Cardinality(model.classes) = 2

model_proba(model, X) ==
    IF model.kind = "rule" THEN predict_proba(X) ELSE forest_proba(model.forest, X)

\* lines 102-118 against a loaded model
Scored(raised, score, err) == [raised |-> raised, score |-> score, err |-> err]

score_with(model, application_data) ==
    IF ExtractRaises(application_data, FieldNames)
    THEN Scored(TRUE, NoScore, "coerce")
    ELSE IF ~has_class1_column(model)
    THEN Scored(TRUE, NoScore, "index")
    ELSE Scored(FALSE,
                <<score_of_prob(model_proba(model, features_of(application_data)))>>,
                "")

\* variant: the model is kept in memory, and a failing read goes unnoticed
load_cached(mf, fault) == mf.kind \in {"absent", "empty", "partial"}

\* with open(MODEL_FILE, 'rb') as f: model = pickle.load(f)
load_raises(mf, fault) == fault = "read" \/ mf.kind \in {"absent", "empty", "partial"}

Predicted(file, raised, score, err, variant) ==
    [file |-> file, raised |-> raised, score |-> score, err |-> err,
     variant |-> variant]

\* the call once the model is loaded
predict_loaded(model, r) == Predicted(model, r.raised, r.score, r.err, model.kind)

\* variant: a call that cannot load the model scores with the rule-based model
predict_fallback(t, application_data, fault) ==
    IF t.raised \/ load_raises(t.file, fault)
    THEN predict_loaded(t.file, score_with(RuleModel, application_data))
    ELSE predict_loaded(t.file, score_with(t.file, application_data))

\* the call once train_model_if_needed is through with outcome t
predict_trained(t, application_data, fault) ==
    IF t.raised
    THEN Predicted(t.file, TRUE, NoScore, "persist", "")
    ELSE IF load_raises(t.file, fault)
    THEN Predicted(t.file, TRUE, NoScore, "load", "")
    ELSE predict_loaded(t.file, score_with(t.file, application_data))

predict_approval(mf, af, application_data, fault, forest) ==
    predict_trained(train_model_if_needed(mf, af, fault, forest),
                    application_data, fault)

(***************************************************************************)
(* get_model_explanation.                                                  *)
(***************************************************************************)
\* variant: the credit message is taken from the persisted model's verdict
explanation_by_model(application_data) ==
    IF ExtractRaises(application_data, ExplainKeys)
    THEN [raised |-> TRUE, explanations |-> <<>>]
    ELSE [raised |-> FALSE,
          explanations |->
              [explanation_list(application_data) EXCEPT
                  ![1] = IF /\ model_file.kind = "learned"
                            /\ score_with(model_file, application_data).score = <<100>>
                         THEN "Your excellent credit score is favorable for approval."
                         ELSE @]]

get_model_explanation(application_data) ==
    IF ExtractRaises(application_data, ExplainKeys)
    THEN [raised |-> TRUE, explanations |-> <<>>]
    ELSE [raised |-> FALSE, explanations |-> explanation_list(application_data)]

(***************************************************************************)
(* data.py: save_application and update_application_status.                *)
(***************************************************************************)
\* application_data.get(key, 0) for the six fields and model_score
stored_data(application_data) == [k \in Keys |-> Get(application_data, k)]

\* the file with the header line and no record
EmptyFile == [exists |-> TRUE, rows |-> <<>>]

create_applications_dataframe(af) == IF af.exists THEN af ELSE EmptyFile

\* pd.concat([applications_df, pd.DataFrame([application])]).to_csv(...)
store_application(df, application_id, application_data) ==
    [exists |-> TRUE,
     rows |-> Append(df.rows,
                     Row(application_id, "now", "pending",
                         stored_data(application_data), "", ""))]

\* the application id stands for str(uuid.uuid4())[:8], taken to be fresh
save_application(af, application_data) ==
    store_application(create_applications_dataframe(af), Len(af.rows) + 1,
                      application_data)

NoNotes == "None"

\* variant: the decision fields are written for every approval or rejection,
\* with or without an officer
update_row_unsigned(row, new_status, officer_username, notes) ==
    LET final == new_status \in {"approved", "rejected"}
    IN  [row EXCEPT !.status = new_status,
                    !.officer_notes = IF notes # NoNotes THEN notes ELSE @,
                    !.decision_date = IF final THEN "date" ELSE @,
                    !.decision_by = IF final THEN officer_username ELSE @]

update_row(row, new_status, officer_username, notes) ==
    LET final == new_status \in {"approved", "rejected"} /\ officer_username # ""
    IN  [row EXCEPT !.status = new_status,
                    !.officer_notes = IF notes # NoNotes THEN notes ELSE @,
                    !.decision_date = IF final THEN "date" ELSE @,
                    !.decision_by = IF final THEN officer_username ELSE @]

update_application_status(af, application_id, new_status, officer_username, notes) ==
    IF ~af.exists \/ af.rows = <<>>
       \/ ~\E i \in 1..Len(af.rows) : af.rows[i].application_id = application_id
    THEN [file |-> af, returned |-> FALSE]
    ELSE [file |-> [af EXCEPT !.rows =
                      [i \in 1..Len(af.rows) |->
                         IF af.rows[i].application_id = application_id
                         THEN update_row(af.rows[i], new_status, officer_username, notes)
                         ELSE af.rows[i]]],
          returned |-> TRUE]

(***************************************************************************)
(* 01_Apply_for_Loan.py: one run of the page script.  click is the button  *)
(* that caused the run, w the values the widgets hold.                     *)
(***************************************************************************)
FreshSession == [application_step |-> <<>>, temp_application |-> NoData]

\* current_step = st.session_state.get("application_step", 0)
current_step(ss) ==
    IF ss.application_step = <<>> THEN 0 ELSE ss.application_step[1]

\* st.session_state.application_step += k raises AttributeError while the
\* key has never been set
step_by(ss, k) ==
    IF ss.application_step = <<>>
    THEN [ss |-> ss, raised |-> TRUE]
    ELSE [ss |-> [ss EXCEPT !.application_step = <<@[1] + k>>], raised |-> FALSE]

next_step(ss) == step_by(ss, 1)
prev_step(ss) == step_by(ss, -1)

PageOut(ss, mf, af, raised) == [ss |-> ss, mf |-> mf, af |-> af, raised |-> raised]

\* a step change n, as the outcome of the run
Stepped(n, mf, af) == PageOut(n.ss, mf, af, n.raised)

\* STEP 1: Personal Information (the personal fields are not modelled)
page_step0(ss, mf, af, click, w) ==
    IF click = "next" /\ w.filled
    THEN Stepped(next_step(ss), mf, af)
    ELSE PageOut(ss, mf, af, FALSE)

\* STEP 2: Loan Details
loan_details_buttons(s1, mf, af, click, all_fields_filled) ==
    IF click = "prev"
    THEN Stepped(prev_step(s1), mf, af)
    ELSE IF click = "next" /\ all_fields_filled
    THEN Stepped(next_step(s1), mf, af)
    ELSE PageOut(s1, mf, af, FALSE)

page_step1(ss, mf, af, click, w) ==
    loan_details_buttons(
        [ss EXCEPT !.temp_application["loan_amount"] = Num(w.loan_amount),
                   !.temp_application["loan_term"] = Num(w.loan_term)],
        mf, af, click,
        w.loan_amount > 0 /\ w.loan_term > 0 /\ w.filled)

\* variant: a score already held in temp_application is kept
review_keeping_score(s1, af, p) ==
    IF p.raised
    THEN PageOut(s1, p.file, af, TRUE)
    ELSE Stepped(next_step([s1 EXCEPT
                              !.temp_application["model_score"] =
                                  IF @ = Absent THEN Num(p.score[1]) ELSE @]),
                 p.file, af)

\* STEP 3: Financial Information
\* model_score = predict_approval(temp_application); store it; next_step()
review_and_submit(s1, af, p) ==
    IF p.raised
    THEN PageOut(s1, p.file, af, TRUE)
    ELSE Stepped(next_step([s1 EXCEPT
                              !.temp_application["model_score"] = Num(p.score[1])]),
                 p.file, af)

financial_buttons(s1, mf, af, click, all_fields_filled, fault, forest) ==
    IF click = "prev"
    THEN Stepped(prev_step(s1), mf, af)
    ELSE IF click = "next" /\ all_fields_filled
    THEN review_and_submit(
             s1, af, predict_approval(mf, af, s1.temp_application, fault, forest))
    ELSE PageOut(s1, mf, af, FALSE)

page_step2(ss, mf, af, click, w, fault, forest) ==
    financial_buttons(
        [ss EXCEPT !.temp_application["annual_income"] = Num(w.annual_income),
                   !.temp_application["employment_length"] = Num(w.employment_length),
                   !.temp_application["credit_score"] = Num(w.credit_score),
                   !.temp_application["monthly_debt"] = Num(w.monthly_debt)],
        mf, af, click,
        /\ w.annual_income >= 0 /\ w.employment_length >= 0
        /\ w.credit_score >= 300 /\ w.monthly_debt >= 0 /\ w.filled,
        fault, forest)

\* STEP 4: Review & Submit
page_step3(ss, mf, af, click, w) ==
    IF get_model_explanation(ss.temp_application).raised
    THEN PageOut(ss, mf, af, TRUE)
    ELSE IF click = "prev"
    THEN Stepped(prev_step(ss), mf, af)
    ELSE IF click = "submit" /\ w.terms_agreed
    THEN PageOut([ss EXCEPT !.temp_application = NoData, !.application_step = <<0>>],
                 mf, save_application(af, ss.temp_application), FALSE)
    ELSE PageOut(ss, mf, af, FALSE)

page_at(step, ss, mf, af, click, w, fault, forest) ==
    CASE step = 0 -> page_step0(ss, mf, af, click, w)
      [] step = 1 -> page_step1(ss, mf, af, click, w)
      [] step = 2 -> page_step2(ss, mf, af, click, w, fault, forest)
      [] step = 3 -> page_step3(ss, mf, af, click, w)
      [] OTHER -> PageOut(ss, mf, af, TRUE)

page_run(ss, mf, af, click, w, fault, forest) ==
    page_at(current_step(ss), ss, mf, af, click, w, fault, forest)

(***************************************************************************)
(* Actions: one per call of the program's operations.                      *)
(***************************************************************************)
\* The record of a call.  op: the operation; data: its application mapping;
\* fault: the storage fault it met; click, step: the button and the step of a
\* page run; raised, err: whether and where it raised; score, explanations,
\* returned: what it returned; variant: the kind of model that scored;
\* created: whether the call wrote the model file; again: whether the call
\* before it was the same call with the same data and returned ("same"),
\* and also wrote the model file ("same_after_create")
NoResult ==
    [op |-> "none", data |-> NoData, fault |-> "none", click |-> "none",
     step |-> 0, raised |-> FALSE, err |-> "", score |-> NoScore,
     explanations |-> <<>>, variant |-> "", created |-> FALSE,
     returned |-> FALSE, again |-> "none", args |-> <<>>]

Call(op, data) ==
    [NoResult EXCEPT
        !.op = op, !.data = data,
        !.again = IF result.op = op /\ result.data = data /\ ~result.raised
                  THEN IF result.created THEN "same_after_create" ELSE "same"
                  ELSE "none"]

TrainModelIfNeeded(fault, forest) ==
    \E t \in {train_model_if_needed(model_file, apps_file, fault, forest)} :
        /\ model_file' = t.file
        /\ result' = [Call("train_model_if_needed", NoData) EXCEPT
                         !.fault = fault, !.raised = t.raised,
                         !.err = IF t.raised THEN "persist" ELSE "",
                         !.created = t.file # model_file]
        /\ UNCHANGED <<apps_file, session_state, users_file, inflight>>

PredictApproval(application_data, fault, forest) ==
    \E p \in {predict_approval(model_file, apps_file, application_data, fault, forest)} :
        /\ model_file' = p.file
        /\ result' = [Call("predict_approval", application_data) EXCEPT
                         !.fault = fault, !.raised = p.raised, !.err = p.err,
                         !.score = p.score, !.variant = p.variant,
                         !.created = p.file # model_file]
        /\ UNCHANGED <<apps_file, session_state, users_file, inflight>>

GetModelExplanation(application_data) ==
    \E e \in {get_model_explanation(application_data)} :
        /\ result' = [Call("get_model_explanation", application_data) EXCEPT
                         !.raised = e.raised,
                         !.err = IF e.raised THEN "coerce" ELSE "",
                         !.explanations = e.explanations]
        /\ UNCHANGED <<model_file, apps_file, session_state, users_file, inflight>>

\* lines 102-118 of predict_approval run against a model object
ScoreWith(model, application_data) ==
    \E r \in {score_with(model, application_data)} :
        /\ result' = [Call("score_with", application_data) EXCEPT
                         !.raised = r.raised, !.err = r.err, !.score = r.score,
                         !.variant = model.kind]
        /\ UNCHANGED <<model_file, apps_file, session_state, users_file, inflight>>

NewCount(af) ==
    Cardinality({i \in 1..Len(af.rows) : af.rows[i].application_date = "now"})

SaveApplication(application_data) ==
    /\ NewCount(apps_file) < MaxNew
    /\ apps_file' = save_application(apps_file, application_data)
    /\ result' = [Call("save_application", application_data) EXCEPT !.returned = TRUE]
    /\ UNCHANGED <<model_file, session_state, users_file, inflight>>

UpdateApplicationStatus(application_id, new_status, officer_username, notes) ==
    \E u \in {update_application_status(apps_file, application_id, new_status,
                                        officer_username, notes)} :
        /\ apps_file' = u.file
        /\ result' = [Call("update_application_status", NoData) EXCEPT
                         !.returned = u.returned,
                         !.args = <<application_id, new_status, officer_username, notes>>]
        /\ UNCHANGED <<model_file, session_state, users_file, inflight>>

ApplyPage(click, w, fault, forest) ==
    \E o \in {page_run(session_state, model_file, apps_file, click, w, fault, forest)} :
        /\ click = "submit" => NewCount(apps_file) < MaxNew
        /\ session_state' = o.ss
        /\ model_file' = o.mf
        /\ apps_file' = o.af
        /\ result' = [Call("page", o.ss.temp_application) EXCEPT
                         !.fault = fault, !.click = click,
                         !.step = current_step(session_state),
                         !.raised = o.raised,
                         !.err = IF o.raised THEN "page" ELSE "",
                         !.created = o.mf # model_file,
                         !.args = <<w>>]
        /\ UNCHANGED <<users_file, inflight>>

(***************************************************************************)
(* Inputs.                                                                 *)
(***************************************************************************)
PartialApp == App(Num(10000), Absent, Absent, Absent, Num(600), Absent)

\* the mappings the lifecycle is exercised with
Applications == {BaseApp, PartialApp}

SavedApps == {[BaseApp EXCEPT !["model_score"] = Num(89)]}

\* ids of the rows saved during the run, and one id no row has
TriedIds ==
    {0} \cup {apps_file.rows[i].application_id :
                 i \in {j \in 1..Len(apps_file.rows) :
                           apps_file.rows[j].application_date = "now"}}

Clicks == {"none", "prev", "next", "submit"}

\* the values the widgets of a step can hold (the other steps' widgets are
\* not rendered, and their values are not read)
Widget(la, ai, cs, filled, terms_agreed) ==
    [loan_amount |-> la, loan_term |-> 3, annual_income |-> ai,
     employment_length |-> 1, credit_score |-> cs, monthly_debt |-> 1000,
     filled |-> filled, terms_agreed |-> terms_agreed]

WidgetsAt(step) ==
    CASE step = 1 -> {Widget(10000, 50000, 700, f, FALSE) : f \in BOOLEAN}
      [] step = 2 -> {Widget(10000, 50000, cs, f, FALSE) :
                         cs \in {600, 700}, f \in BOOLEAN}
      [] step = 3 -> {Widget(10000, 50000, 700, TRUE, t) : t \in BOOLEAN}
      [] OTHER    -> {Widget(10000, 50000, 700, f, FALSE) : f \in BOOLEAN}

\* the faults and fits that can make a difference to a call: a write is
\* attempted only while there is no model file, and a forest is fitted only
\* when the history then has enough decided rows
FaultsFor(mf) == IF ModelFileExists(mf) THEN {"none", "read"} ELSE Faults
ForestsFor(mf, af) ==
    IF ~ModelFileExists(mf) /\ chosen_model(af, NoForest).kind = "learned"
    THEN Forests ELSE {NoForest}

\* only the Next button of step 3 reaches the model file
PageFaults(step, click) ==
    IF step = 2 /\ click = "next" THEN FaultsFor(model_file) ELSE {"none"}
PageForests(step, click) ==
    IF step = 2 /\ click = "next" THEN ForestsFor(model_file, apps_file) ELSE {NoForest}

(***************************************************************************)
(* Spec: the model lifecycle, from no persisted model and a fresh session. *)
(***************************************************************************)
Init ==
    /\ model_file = FileAbsent
    /\ apps_file \in {NoFile} \cup {BaseHistory(HistBase, mixed) : mixed \in BOOLEAN}
    /\ session_state = FreshSession
    /\ users_file = NoUsers
    /\ inflight = NoCalls
    /\ result = NoResult

Train ==
    \E fault \in FaultsFor(model_file) \ {"read"},
       forest \in ForestsFor(model_file, apps_file) :
        TrainModelIfNeeded(fault, forest)

Predict ==
    \E application_data \in Applications, fault \in FaultsFor(model_file),
       forest \in ForestsFor(model_file, apps_file) :
        PredictApproval(application_data, fault, forest)

Explain == \E application_data \in Applications : GetModelExplanation(application_data)

Save == \E application_data \in SavedApps : SaveApplication(application_data)

Update ==
    \E application_id \in TriedIds, new_status \in {"approved", "rejected"} :
        UpdateApplicationStatus(application_id, new_status, "officer1", NoNotes)

Page ==
    \E click \in Clicks, w \in WidgetsAt(current_step(session_state)) :
        \E fault \in PageFaults(current_step(session_state), click),
           forest \in PageForests(current_step(session_state), click) :
            ApplyPage(click, w, fault, forest)

Next == Train \/ Predict \/ Explain \/ Save \/ Update \/ Page

Spec == Init /\ [][Next]_vars

(***************************************************************************)
(* SpecScore: the scoring and explanation functions applied to loosely-    *)
(* typed mappings, against each kind of model object.                      *)
(***************************************************************************)
WideApplications ==
    {App(la, lt, ai, Num(1), cs, md) :
        la \in {Absent, Num(10000), Num(60000), EmptyStr},
        lt \in {Absent, Num(3)},
        ai \in {Absent, Num(12000), Num(50000), Num(-1000)},
        cs \in {Absent, Num(700), Num(850), Frac(1499, 2), NoneV},
        md \in {Num(0), Num(200), Num(1000)}}

LoadedModels ==
    {RuleModel} \cup {FileLearned({0, 1}, forest) : forest \in Forests}
                \cup {FileLearned({1}, <<One, Zero>>)}

\* the mapping is drawn first, and each function is then applied to it
InitScore ==
    /\ model_file = FileAbsent
    /\ apps_file = NoFile
    /\ session_state = FreshSession
    /\ users_file = NoUsers
    /\ inflight = NoCalls
    /\ result \in {[NoResult EXCEPT !.op = "input", !.data = application_data] :
                       application_data \in WideApplications}

Score ==
    /\ result.op = "input"
    /\ \E model \in LoadedModels : ScoreWith(model, result.data)

ExplainWide ==
    /\ result.op = "input"
    /\ GetModelExplanation(result.data)

NextScore == Score \/ ExplainWide

SpecScore == InitScore /\ [][NextScore]_vars

(***************************************************************************)
(* SpecForm: the application form in a session whose application_step has  *)
(* been set to 0, with a history that lets a model be fitted.              *)
(***************************************************************************)
InitForm ==
    /\ model_file = FileAbsent
    /\ apps_file \in {NoFile, BaseHistory(HistBase + MaxNew, TRUE)}
    /\ session_state = [FreshSession EXCEPT !.application_step = <<0>>]
    /\ users_file = NoUsers
    /\ inflight = NoCalls
    /\ result = NoResult

NextForm == Page \/ Predict

SpecForm == InitForm /\ [][NextForm]_vars

(***************************************************************************)
(* SpecCoerce: the same two functions applied to mappings whose values are *)
(* fractional, negative or outside the usual ranges.                       *)
(***************************************************************************)
CoerceApplications ==
    {App(la, lt, Num(50000), el, cs, md) :
        la \in {Num(10000), Frac(20001, 2)},
        lt \in {Num(36), Frac(7, 2), Frac(-8, 3)},
        el \in {Num(1), Frac(19, 10)},
        cs \in {Frac(1499, 2), Frac(2999, 4), Num(900), Num(200)},
        md \in {Num(1000), Frac(2001, 2)}}

InitCoerce ==
    /\ model_file = FileAbsent
    /\ apps_file = NoFile
    /\ session_state = FreshSession
    /\ users_file = NoUsers
    /\ inflight = NoCalls
    /\ result \in {[NoResult EXCEPT !.op = "input", !.data = application_data] :
                       application_data \in CoerceApplications}

SpecCoerce == InitCoerce /\ [][NextScore]_vars

(***************************************************************************)
(* SpecExplain: get_model_explanation applied to mappings on and next to   *)
(* the edges of the bands of its four ladders.                             *)
(***************************************************************************)
LadderApplications ==
    {App(Num(la), Num(lt), Num(ai), Num(1), cs, Num(md)) :
        la \in {0, 3600, 3601, 6000, 6001, 10080, 10081, 24000, 24001},
        lt \in {36, 0, -1},
        ai \in {12000, 0, -1000},
        cs \in {Absent, Num(599), Num(600), Num(649), Num(650), Num(699),
                Num(700), Num(749), Num(750)},
        md \in {0, 200, 201, 360, 361, 430, 431}}

InitExplain ==
    /\ model_file = FileAbsent
    /\ apps_file = NoFile
    /\ session_state = FreshSession
    /\ users_file = NoUsers
    /\ inflight = NoCalls
    /\ result \in {[NoResult EXCEPT !.op = "input", !.data = application_data] :
                       application_data \in LadderApplications}

NextExplain == ExplainWide

SpecExplain == InitExplain /\ [][NextExplain]_vars

(***************************************************************************)
(* Interleaved calls.  Each session runs its call statement by statement;  *)
(* ml_model.py and data.py take no lock and write the files in place.      *)
(***************************************************************************)
Others == <<apps_file, session_state, result, users_file>>

\* predict_approval is entered and calls train_model_if_needed
BeginPredict(s, application_data) ==
    /\ inflight[s].pc = "idle"
    /\ inflight' = [inflight EXCEPT ![s] =
                      [IdleCall EXCEPT !.pc = "exists", !.op = "predict_approval",
                                       !.args = <<application_data>>]]
    /\ UNCHANGED <<model_file, Others>>

\* if os.path.exists(MODEL_FILE): return
CheckExists(s) ==
    /\ inflight[s].pc = "exists"
    /\ inflight' = [inflight EXCEPT ![s].pc =
                      IF ModelFileExists(model_file) THEN "load" ELSE "fit"]
    /\ UNCHANGED <<model_file, Others>>

\* RandomForestClassifier(random_state=42).fit is a function of the rows: two
\* sessions that read the same history fit the same forest
FitForests(s) ==
    IF chosen_model(apps_file, NoForest).kind # "learned" THEN {NoForest}
    ELSE {forest \in Forests :
             \A t \in Sessions \ {s} :
                 inflight[t].model.kind = "learned"
                     => inflight[t].model.forest = forest}

\* the history is read and the model is built in memory
FitModel(s) ==
    /\ inflight[s].pc = "fit"
    /\ \E forest \in FitForests(s) :
          inflight' = [inflight EXCEPT ![s].pc = "open",
                                       ![s].model = chosen_model(apps_file, forest)]
    /\ UNCHANGED <<model_file, Others>>

\* open(MODEL_FILE, 'wb') creates the file, or truncates the one there is
OpenModelFile(s) ==
    /\ inflight[s].pc = "open"
    /\ model_file' = FileEmpty
    /\ inflight' = [inflight EXCEPT ![s].pc = "dump", ![s].wrote = TRUE]
    /\ UNCHANGED Others

\* pickle.dump(model, f): it raises for the rule-based model before a byte
\* is written, and writes a forest frame by frame
DumpModel(s) ==
    /\ inflight[s].pc = "dump"
    /\ IF Picklable(inflight[s].model.kind)
       THEN /\ model_file' = FilePartial
            /\ inflight' = [inflight EXCEPT ![s].pc = "close"]
       ELSE /\ model_file' = model_file
            /\ inflight' = [inflight EXCEPT ![s].pc = "done", ![s].raised = TRUE,
                                            ![s].err = "persist"]
    /\ UNCHANGED Others

\* what the file holds when this session has written its last byte: while
\* another session is between its own open and close, it has truncated the
\* file under this one and the bytes of the two are mixed
ClosedFiles(s) ==
    IF \E t \in Sessions \ {s} : inflight[t].pc \in {"dump", "close"}
    THEN {FilePartial, inflight[s].model}
    ELSE {inflight[s].model}

\* the with block of the dump is left
CloseModelFile(s) ==
    /\ inflight[s].pc = "close"
    /\ model_file' \in ClosedFiles(s)
    /\ inflight' = [inflight EXCEPT ![s].pc = "load"]
    /\ UNCHANGED Others

\* with open(MODEL_FILE, 'rb') as f: model = pickle.load(f)
LoadModel(s) ==
    /\ inflight[s].pc = "load"
    /\ inflight' = [inflight EXCEPT ![s] =
                      IF load_raises(model_file, "none")
                      THEN [@ EXCEPT !.pc = "done", !.raised = TRUE, !.err = "load"]
                      ELSE [@ EXCEPT !.pc = "score", !.model = model_file]]
    /\ UNCHANGED <<model_file, Others>>

\* features, predict_proba and int(prob * 100)
ScoreLoaded(s) ==
    /\ inflight[s].pc = "score"
    /\ \E r \in {score_with(inflight[s].model, inflight[s].args[1])} :
          inflight' = [inflight EXCEPT ![s].pc = "done", ![s].raised = r.raised,
                                       ![s].err = r.err, ![s].score = r.score,
                                       ![s].variant = inflight[s].model.kind]
    /\ UNCHANGED <<model_file, Others>>

\* the caller has the outcome; the session is free for its next call
ReturnCall(s) ==
    /\ inflight[s].pc = "done"
    /\ inflight' = [inflight EXCEPT ![s] = IdleCall]
    /\ UNCHANGED <<model_file, Others>>

InitRace ==
    /\ model_file = FileAbsent
    /\ apps_file \in {NoFile, BaseHistory(HistBase + MaxNew, TRUE)}
    /\ session_state = FreshSession
    /\ result = NoResult
    /\ users_file = NoUsers
    /\ inflight = NoCalls

NextRace ==
    \/ \E s \in Sessions, application_data \in Applications :
           BeginPredict(s, application_data)
    \/ \E s \in Sessions : CheckExists(s)
    \/ \E s \in Sessions : FitModel(s)
    \/ \E s \in Sessions : OpenModelFile(s)
    \/ \E s \in Sessions : DumpModel(s)
    \/ \E s \in Sessions : CloseModelFile(s)
    \/ \E s \in Sessions : LoadModel(s)
    \/ \E s \in Sessions : ScoreLoaded(s)
    \/ \E s \in Sessions : ReturnCall(s)

SpecRace == InitRace /\ [][NextRace]_vars

(***************************************************************************)
(* Interleaved save_application and update_application_status: each reads  *)
(* the whole applications file into a dataframe and writes it back.        *)
(***************************************************************************)
Max(S) == CHOOSE m \in S : \A n \in S : n <= m

IdsOf(rows) == {rows[i].application_id : i \in 1..Len(rows)}

\* ids in the file, in a dataframe some session holds, or already drawn
KnownIds ==
    {0} \cup IdsOf(apps_file.rows)
        \cup UNION {IdsOf(inflight[s].df.rows) : s \in Sessions}
        \cup {inflight[s].args[1] : s \in {t \in Sessions : inflight[t].op = "save_application"}}

\* str(uuid.uuid4())[:8]: an id no record and no other call has
FreshId == CHOOSE n \in 1..(Max(KnownIds) + 1) :
               n \notin KnownIds /\ \A m \in 1..(n - 1) : m \in KnownIds

\* applications being saved by some session
SavesInFlight == Cardinality({s \in Sessions : inflight[s].op = "save_application"})

BeginSave(s, application_data) ==
    /\ inflight[s].pc = "idle"
    /\ Len(apps_file.rows) + SavesInFlight < MaxNew
    /\ inflight' = [inflight EXCEPT ![s] =
                      [IdleCall EXCEPT !.pc = "read", !.op = "save_application",
                                       !.args = <<FreshId, application_data>>]]
    /\ UNCHANGED <<model_file, Others>>

BeginUpdate(s, application_id, new_status, officer_username, notes) ==
    /\ inflight[s].pc = "idle"
    /\ inflight' = [inflight EXCEPT ![s] =
                      [IdleCall EXCEPT !.pc = "read", !.op = "update_application_status",
                                       !.args = <<application_id, new_status,
                                                  officer_username, notes>>]]
    /\ UNCHANGED <<model_file, Others>>

\* applications_df = create_applications_dataframe()
ReadForSave(s) ==
    /\ inflight[s].pc = "read"
    /\ inflight[s].op = "save_application"
    /\ apps_file' = create_applications_dataframe(apps_file)
    /\ inflight' = [inflight EXCEPT ![s].pc = "write", ![s].df = apps_file']
    /\ UNCHANGED <<model_file, session_state, result, users_file>>

\* updated_applications.to_csv(LOAN_APPLICATIONS_FILE, index=False)
WriteSaved(s) ==
    /\ inflight[s].pc = "write"
    /\ inflight[s].op = "save_application"
    /\ apps_file' = store_application(inflight[s].df, inflight[s].args[1],
                                      inflight[s].args[2])
    /\ inflight' = [inflight EXCEPT ![s].pc = "done", ![s].df = NoFile,
                                    ![s].returned = TRUE]
    /\ UNCHANGED <<model_file, session_state, result, users_file>>

\* the three early returns of update_application_status, on the file as read
ReadForUpdate(s) ==
    /\ inflight[s].pc = "read"
    /\ inflight[s].op = "update_application_status"
    /\ inflight' = [inflight EXCEPT ![s] =
                      IF update_application_status(apps_file, @.args[1], @.args[2],
                                                   @.args[3], @.args[4]).returned
                      THEN [@ EXCEPT !.pc = "write", !.df = apps_file]
                      ELSE [@ EXCEPT !.pc = "done", !.returned = FALSE]]
    /\ UNCHANGED <<model_file, Others>>

\* applications_df.to_csv(LOAN_APPLICATIONS_FILE, index=False); return True
WriteUpdated(s) ==
    /\ inflight[s].pc = "write"
    /\ inflight[s].op = "update_application_status"
    /\ apps_file' = update_application_status(inflight[s].df, inflight[s].args[1],
                                              inflight[s].args[2], inflight[s].args[3],
                                              inflight[s].args[4]).file
    /\ inflight' = [inflight EXCEPT ![s].pc = "done", ![s].df = NoFile,
                                    ![s].returned = TRUE]
    /\ UNCHANGED <<model_file, session_state, result, users_file>>

InitStore ==
    /\ model_file = FileAbsent
    /\ apps_file = NoFile
    /\ session_state = FreshSession
    /\ result = NoResult
    /\ users_file = NoUsers
    /\ inflight = NoCalls

NextStore ==
    \/ \E s \in Sessions, application_data \in SavedApps :
           BeginSave(s, application_data)
    \/ \E s \in Sessions, application_id \in IdsOf(apps_file.rows) \cup {0} :
           BeginUpdate(s, application_id, "approved", "officer1", NoNotes)
    \/ \E s \in Sessions : ReadForSave(s)
    \/ \E s \in Sessions : WriteSaved(s)
    \/ \E s \in Sessions : ReadForUpdate(s)
    \/ \E s \in Sessions : WriteUpdated(s)
    \/ \E s \in Sessions : ReturnCall(s)

SpecStore == InitStore /\ [][NextStore]_vars

(***************************************************************************)
(* update_application_status over all its arguments: any status text, with *)
(* and without an officer, with and without notes, on a missing file, a     *)
(* file without records, and ids no record has.                             *)
(***************************************************************************)
InitStatus ==
    /\ model_file = FileAbsent
    /\ apps_file \in {NoFile, EmptyFile}
    /\ session_state = FreshSession
    /\ users_file = NoUsers
    /\ inflight = NoCalls
    /\ result = NoResult

UpdateStatus ==
    \E application_id \in IdsOf(apps_file.rows) \cup {0},
       new_status \in {"approved", "rejected", "under_review"},
       officer_username \in {"", "officer2"}, notes \in {NoNotes, "reviewed"} :
        UpdateApplicationStatus(application_id, new_status, officer_username, notes)

NextStatus == Save \/ UpdateStatus

SpecStatus == InitStatus /\ [][NextStatus]_vars

(***************************************************************************)
(* auth.py: the user store is user_credentials.csv.  users_file holds the   *)
(* cells as text, as to_csv wrote them (created_at is left out); a read     *)
(* goes through pd.read_csv, which does not give back every text it was     *)
(* given: with the default options a cell whose text is one of pandas' NA   *)
(* strings is read as NaN, and a column whose other cells all read as       *)
(* numbers holds numbers, not strings.                                      *)
(***************************************************************************)
\* texts pd.read_csv reads as missing ('' and 'NA' of its default NA strings)
NaTexts == {"", "NA"}

\* texts pd.read_csv reads as numbers
NumberTexts == {"123", "123.0"}

\* how to_csv writes the number when the column is float64
FloatText == [t \in NumberTexts |-> "123.0"]

Cell(kind, text) == [kind |-> kind, text |-> text]

\* hashlib.sha256(password.encode()).hexdigest(): equal for equal passwords
\* only (a digest is 64 hex characters, never an NA string)
hash_password(password) == <<"sha256", password>>

UserRow(username, password_hash, user_type) ==
    [username |-> username, password_hash |-> password_hash, user_type |-> user_type]

\* dtype inference for the username column
IsNumberColumn(rows) ==
    /\ \A i \in 1..Len(rows) : rows[i].username \in NaTexts \cup NumberTexts
    /\ \E i \in 1..Len(rows) : rows[i].username \in NumberTexts

\* int64 becomes float64 when a cell is missing or has a decimal point
IsFloatColumn(rows) ==
    \E i \in 1..Len(rows) : rows[i].username \in NaTexts \cup {"123.0"}

read_username(rows, text) ==
    IF text \in NaTexts THEN Cell("nan", "")
    ELSE IF IsNumberColumn(rows)
    THEN Cell("num", IF IsFloatColumn(rows) THEN FloatText[text] ELSE text)
    ELSE Cell("str", text)

\* pd.read_csv(USER_DATA_FILE): the rows of the dataframe
read_users(rows) ==
    [i \in 1..Len(rows) |->
        [rows[i] EXCEPT !.username = read_username(rows, rows[i].username)]]

\* create_user_dataframe(): the dataframe it returns
create_user_dataframe(uf) == IF uf.exists THEN read_users(uf.rows) ELSE <<>>

\* to_csv(USER_DATA_FILE, index=False): NaN is written as the empty text
write_users(users_df) ==
    [exists |-> TRUE,
     rows |-> [i \in 1..Len(users_df) |->
                 [users_df[i] EXCEPT !.username = @.text]]]

\* username in users_df['username'].values: a str equals no number and no NaN
username_in(users_df, username) ==
    \E i \in 1..Len(users_df) : users_df[i].username = Cell("str", username)

create_user_on(uf, users_df, username, password, user_type) ==
    IF users_df # <<>> /\ username_in(users_df, username)
    THEN [file |-> uf, returned |-> FALSE]
    ELSE [file |-> write_users(Append(users_df,
                       UserRow(Cell("str", username), hash_password(password),
                               user_type))),
          returned |-> TRUE]

create_user(uf, username, password, user_type) ==
    create_user_on(uf, create_user_dataframe(uf), username, password, user_type)

\* the rows with this username and this user type
user_rows(users_df, username, user_type) ==
    SelectSeq(users_df,
              LAMBDA r : r.username = Cell("str", username) /\ r.user_type = user_type)

password_matches(user, password) ==
    user # <<>> /\ user[1].password_hash = hash_password(password)

\* authenticate_user creates the file when it is missing
authenticate_user(uf, username, password, user_type) ==
    [file |-> IF uf.exists THEN uf ELSE write_users(<<>>),
     returned |-> password_matches(
                      user_rows(create_user_dataframe(uf), username, user_type),
                      password)]

\* rows the store may hold in a run
MaxUsers == 2

CreateUser(username, password, user_type) ==
    /\ Len(users_file.rows) < MaxUsers
    /\ \E c \in {create_user(users_file, username, password, user_type)} :
          /\ users_file' = c.file
          /\ result' = [Call("create_user", NoData) EXCEPT
                           !.returned = c.returned,
                           !.args = <<username, password, user_type>>]
    /\ UNCHANGED <<model_file, apps_file, session_state, inflight>>

AuthenticateUser(username, password, user_type) ==
    /\ \E a \in {authenticate_user(users_file, username, password, user_type)} :
          /\ users_file' = a.file
          /\ result' = [Call("authenticate_user", NoData) EXCEPT
                           !.returned = a.returned,
                           !.args = <<username, password, user_type>>]
    /\ UNCHANGED <<model_file, apps_file, session_state, inflight>>

\* what the signup and login forms of app.py pass on: any non-empty text
UserNames == {"alice", "NA", "123"}
Passwords == {"pw1", "pw2"}
UserTypes == {"applicant", "loan officer"}

InitUsers ==
    /\ model_file = FileAbsent
    /\ apps_file = NoFile
    /\ session_state = FreshSession
    /\ users_file = NoUsers
    /\ inflight = NoCalls
    /\ result = NoResult

Signup ==
    \E username \in UserNames, password \in Passwords, user_type \in UserTypes :
        CreateUser(username, password, user_type)

Login ==
    \E username \in UserNames, password \in Passwords, user_type \in UserTypes :
        AuthenticateUser(username, password, user_type)

NextUsers == Signup \/ Login

SpecUsers == InitUsers /\ [][NextUsers]_vars

(***************************************************************************)
(* Properties.                                                             *)
(***************************************************************************)
IsScore(r, lo, hi) == ~r.raised /\ Len(r.score) = 1 /\ r.score[1] \in lo..hi

\* the persisted file holds a scorer that loads
LoadableModel(mf) == mf.kind \in {"rule", "learned"}

\* C1: whichever scorer variant is persisted, predict_approval returns an
\* integer score in 0..100, and one in 5..95 when the rule-based scorer is
\* the variant.  Stated for the calls that meet no storage fault.
C1_ScoreInRange ==
    (/\ result.op = "predict_approval"
     /\ result.fault = "none"
     /\ LoadableModel(model_file))
        => /\ IsScore(result, 0, 100)
           /\ result.variant = "rule" => IsScore(result, 5, 95)

\* The reference formula of the rule-based score, in integer arithmetic over
\* the numeric fields of a mapping (a missing field is 0):
\*   100 * prob = 50 + cf/25 + 15 * (df + lf) / annual_income
\* with cf = clamp(credit_score - 300, 0, 500), df = clamp(annual_income -
\* 12 * monthly_debt, 0, annual_income) and lf = clamp(annual_income -
\* loan_amount, 0, annual_income), and df = lf = 0 when annual_income <= 0.
RefField(application_data, key) ==
    IF application_data[key][1] = "num"
    THEN application_data[key][2] \div application_data[key][3]
    ELSE 0

RefClamp(x, lo, hi) == IF x < lo THEN lo ELSE IF x > hi THEN hi ELSE x

RefScoreOf(loan_amount, annual_income, credit_score, monthly_debt) ==
    IF annual_income > 0
    THEN RefClamp(
             (1250 * annual_income
                + RefClamp(credit_score - 300, 0, 500) * annual_income
                + 375 * (RefClamp(annual_income - 12 * monthly_debt, 0, annual_income)
                           + RefClamp(annual_income - loan_amount, 0, annual_income)))
               \div (25 * annual_income),
             5, 95)
    ELSE RefClamp(50 + RefClamp(credit_score - 300, 0, 500) \div 25, 5, 95)

RefScore(application_data) ==
    RefScoreOf(RefField(application_data, "loan_amount"),
               RefField(application_data, "annual_income"),
               RefField(application_data, "credit_score"),
               RefField(application_data, "monthly_debt"))

RuleScored == result.op = "score_with" /\ result.variant = "rule" /\ ~result.raised

\* C2: with the rule-based scorer, the score of every numeric mapping equals
\* the reference formula floor(100 * clamp(0.5 + 0.20 cf + 0.15 df + 0.15 lf,
\* 0.05, 0.95)); with annual_income <= 0 nothing is divided by zero and the
\* score is floor(100 * (0.5 + 0.2 cf)).
C2_RuleFormula ==
    RuleScored =>
        /\ result.score = <<RefScore(result.data)>>
        /\ RefField(result.data, "annual_income") <= 0 =>
               result.score =
                   <<50 + RefClamp(RefField(result.data, "credit_score") - 300, 0, 500)
                            \div 25>>

\* a score the truncation lowers, and one of a non-positive income
C2_Witness ==
    /\ RuleScored
    /\ result.data["annual_income"] = Num(-1000)
    /\ result.data["credit_score"] = Frac(1499, 2)
    /\ result.score = <<67>>

\* the rule-based score of a mapping with one field replaced
RuleScoreWith(application_data, key, value) ==
    score_with(RuleModel, [application_data EXCEPT ![key] = Num(value)]).score[1]

CreditProbes == {0, 299, 300, 301, 500, 649, 700, 749, 750, 800, 849, 850, 851, 1000}
DebtProbes == {0, 100, 200, 500, 1000, 1001, 2000, 4166, 4167, 5000}

\* C3: the rule-based score is non-decreasing in credit_score: a mapping
\* that differs only by a higher credit_score scores at least as much.
C3_MonotoneCredit ==
    RuleScored =>
        \A c \in CreditProbes :
            /\ c >= RefField(result.data, "credit_score") =>
                   RuleScoreWith(result.data, "credit_score", c) >= result.score[1]
            /\ c <= RefField(result.data, "credit_score") =>
                   RuleScoreWith(result.data, "credit_score", c) <= result.score[1]

\* a higher credit score that scores strictly more
C3_Witness ==
    /\ RuleScored
    /\ \E c \in CreditProbes :
          /\ c > RefField(result.data, "credit_score")
          /\ RuleScoreWith(result.data, "credit_score", c) > result.score[1]

\* C4: with annual_income > 0 the rule-based score is non-increasing in
\* monthly_debt: a mapping that differs only by a higher monthly_debt scores
\* at most as much.
C4_MonotoneDebt ==
    (RuleScored /\ RefField(result.data, "annual_income") > 0) =>
        \A m \in DebtProbes :
            /\ m >= RefField(result.data, "monthly_debt") =>
                   RuleScoreWith(result.data, "monthly_debt", m) <= result.score[1]
            /\ m <= RefField(result.data, "monthly_debt") =>
                   RuleScoreWith(result.data, "monthly_debt", m) >= result.score[1]

\* a higher monthly debt that scores strictly less
C4_Witness ==
    /\ RuleScored
    /\ RefField(result.data, "annual_income") > 0
    /\ \E m \in DebtProbes :
          /\ m > RefField(result.data, "monthly_debt")
          /\ RuleScoreWith(result.data, "monthly_debt", m) < result.score[1]

\* C5: from no persisted model and with no storage fault, a call of
\* train_model_if_needed with exactly MinDecided - 1 decided records persists
\* the rule-based scorer, and with exactly MinDecided persists a learned one.
C5_Threshold ==
    [][(/\ result'.op = "train_model_if_needed"
        /\ result'.fault = "none"
        /\ ~ModelFileExists(model_file))
           => /\ Len(decided_apps(apps_file)) = MinDecided - 1 =>
                     ~result'.raised /\ model_file'.kind = "rule"
              /\ Len(decided_apps(apps_file)) = MinDecided =>
                     ~result'.raised /\ model_file'.kind = "learned"]_vars

\* C6: once the model file exists no call rewrites it, whatever the history
\* has become; train_model_if_needed then returns without effect, and every
\* call that scores does so with the variant in the file.
C6_NoRetraining ==
    [][/\ ModelFileExists(model_file) => model_file' = model_file
       /\ (result'.op = "train_model_if_needed" /\ ModelFileExists(model_file))
              => ~result'.raised /\ ~result'.created
       /\ (result'.op = "predict_approval" /\ ~result'.raised)
              => /\ result'.variant = model_file'.kind
                 /\ ModelFileExists(model_file) =>
                        result'.variant = model_file.kind]_vars

\* train_model_if_needed has returned on a persisted learned model that is
\* no longer the one the history would give
C6_Witness ==
    /\ result.op = "train_model_if_needed"
    /\ ~result.raised
    /\ ~result.created
    /\ model_file.kind = "learned"
    /\ chosen_model(apps_file, model_file.forest) # model_file

\* C7: get_model_explanation returns exactly 4 non-empty strings and never
\* fails, for every input mapping.
C7_FourExplanations ==
    result.op = "get_model_explanation" =>
        /\ ~result.raised
        /\ Len(result.explanations) = 4
        /\ \A i \in 1..Len(result.explanations) : result.explanations[i] # ""

\* a read or a write of the model file fails in the step to result'
StorageFails ==
    \/ result'.fault = "read"
    \/ model_file.kind \in {"empty", "partial"}
    \/ /\ ~ModelFileExists(model_file)
       /\ \/ result'.fault \in {"open_write", "dump"}
          \/ ~Picklable(chosen_model(apps_file, NoForest).kind)

\* C8: when reading or writing the model file fails, predict_approval raises
\* and returns no score of any variant, and the form run that called it
\* neither stores a model_score nor leaves the financial step.
C8_StorageFailure ==
    [][/\ (result'.op = "predict_approval" /\ StorageFails)
              => /\ result'.raised
                 /\ result'.score = NoScore
                 /\ result'.variant = ""
       /\ (/\ result'.op = "page"
           /\ result'.step = 2
           /\ result'.click = "next"
           /\ StorageFails)
              => /\ session_state'.application_step = session_state.application_step
                 /\ session_state'.temp_application["model_score"]
                        = session_state.temp_application["model_score"]]_vars

\* the Next button of the financial step has met a read failure on a
\* persisted learned model, with every field filled in
C8_Witness ==
    /\ result.op = "page"
    /\ result.step = 2
    /\ result.click = "next"
    /\ result.fault = "read"
    /\ result.raised
    /\ model_file.kind = "learned"
    /\ session_state.application_step = <<2>>
    /\ session_state.temp_application["model_score"] = Absent

\* C9: feature extraction never raises: for every loosely-typed mapping
\* predict_approval and get_model_explanation obtain a value for each field.
C9_ExtractionTotal ==
    result.op \in {"score_with", "get_model_explanation"} => result.err # "coerce"

\* C10: the same call made twice in a row with the same data returns the
\* same score, also when the first call wrote the model file, and the same
\* explanations; get_model_explanation changes no state.
C10_Idempotent ==
    [][/\ (/\ result'.op = "predict_approval"
           /\ result'.again # "none"
           /\ ~result'.raised)
              => result'.score = result.score
       /\ (/\ result'.op = "get_model_explanation"
           /\ result'.again # "none"
           /\ ~result'.raised)
              => result'.explanations = result.explanations
       /\ result'.op = "get_model_explanation"
              => UNCHANGED <<model_file, apps_file, session_state>>]_vars

\* a second predict_approval has returned after the first one wrote the model
C10_Witness ==
    /\ result.op = "predict_approval"
    /\ ~result.raised
    /\ result.again = "same_after_create"

\* the file the rule-based branch of train_model_if_needed leaves behind
RuleBranchFile(mf) == mf.kind \in {"rule", "empty"}

\* C11: after train_model_if_needed has taken the rule-based branch, the
\* file holds the rule-based scorer, and a predict_approval call that meets
\* no storage fault loads it and returns the rule-based score.
C11_RuleRoundTrip ==
    (/\ result.op = "predict_approval"
     /\ result.fault = "none"
     /\ RuleBranchFile(model_file))
        => /\ model_file = RuleModel
           /\ ~result.raised
           /\ result.variant = "rule"
           /\ result.score = <<RefScore(result.data)>>

\* the class-1 probability of the persisted forest for a mapping
LearnedScored ==
    /\ result.op = "predict_approval"
    /\ ~result.raised
    /\ result.variant = "learned"
    /\ model_file.kind = "learned"

LeafOf(application_data) ==
    IF RefField(application_data, "credit_score") >= 650
    THEN model_file.forest[1]
    ELSE model_file.forest[2]

\* round(p * 100) and int(p * 100) of a probability p = <<n, d>>
RoundNearest100(p) == (200 * p[1] + p[2]) \div (2 * p[2])
Truncated100(p) == (100 * p[1]) \div p[2]

\* C12 (as stated): with a learned scorer, predict_approval returns the
\* class-1 probability times 100 rounded to the nearest integer.
C12_Rounded ==
    LearnedScored => result.score = <<RoundNearest100(LeafOf(result.data))>>

\* C12 (amended): with a learned scorer, predict_approval returns the
\* class-1 probability times 100 truncated to an integer, int(prob * 100).
C12_Truncated ==
    LearnedScored => result.score = <<Truncated100(LeafOf(result.data))>>

\* a probability of 2/3 has scored 66, not 67
C12_Witness ==
    /\ LearnedScored
    /\ LeafOf(result.data) = Rat(2, 3)
    /\ result.score = <<66>>

\* int(v) and round(v) of a numeric value <<"num", n, d>>, and the value itself
RefTruncated(v) == IF v[2] >= 0 THEN v[2] \div v[3] ELSE -((-v[2]) \div v[3])
RefRounded(v) == (2 * v[2] + v[3]) \div (2 * v[3])
RefValue(v) == <<v[2], v[3]>>

\* the features of a mapping, given its three integer fields
RefFeaturesOf(application_data, loan_term, employment_length, credit_score) ==
    [loan_amount       |-> RefValue(application_data["loan_amount"]),
     loan_term         |-> loan_term,
     annual_income     |-> RefValue(application_data["annual_income"]),
     employment_length |-> employment_length,
     credit_score      |-> credit_score,
     monthly_debt      |-> RefValue(application_data["monthly_debt"])]

RefFeaturesRounded(application_data) ==
    RefFeaturesOf(application_data,
                  RefRounded(application_data["loan_term"]),
                  RefRounded(application_data["employment_length"]),
                  RefRounded(application_data["credit_score"]))

RefFeaturesTruncated(application_data) ==
    RefFeaturesOf(application_data,
                  RefTruncated(application_data["loan_term"]),
                  RefTruncated(application_data["employment_length"]),
                  RefTruncated(application_data["credit_score"]))

\* the explanations of a row of features
RefExplained(X) ==
    explanations_of(X.loan_amount, X.loan_term, X.annual_income,
                    monthly_income_of(X.annual_income), X.credit_score,
                    X.monthly_debt)

Extracted ==
    /\ result.op \in {"score_with", "get_model_explanation"}
    /\ result.err # "coerce"

\* C13 (as stated): extraction rounds loan_term, employment_length and
\* credit_score to the nearest integer, takes the other three fields as
\* floats and validates no range.
C13_RoundedFields ==
    Extracted =>
        /\ features_of(result.data) = RefFeaturesRounded(result.data)
        /\ (result.op = "get_model_explanation" /\ ~result.raised) =>
               result.explanations
                   = RefExplained(RefFeaturesRounded(result.data))

\* C13 (amended): extraction truncates loan_term, employment_length and
\* credit_score toward zero, takes the other three fields as floats and
\* validates no range.
C13_TruncatedFields ==
    Extracted =>
        /\ features_of(result.data) = RefFeaturesTruncated(result.data)
        /\ (result.op = "get_model_explanation" /\ ~result.raised) =>
               result.explanations
                   = RefExplained(RefFeaturesTruncated(result.data))

\* a credit score of 749.5 has been explained as 749, a good score, next to
\* a loan term of -8/3 taken as -2
C13_Witness ==
    /\ result.op = "get_model_explanation"
    /\ ~result.raised
    /\ result.data["credit_score"] = Frac(1499, 2)
    /\ result.data["loan_term"] = Frac(-8, 3)
    /\ features_of(result.data).loan_term = -2
    /\ result.explanations[1] = "Your good credit score is a positive factor."

\* predict_approval is called after a predict_approval call that returned
AfterScoringCall ==
    /\ result.op = "predict_approval"
    /\ ~result.raised
    /\ result'.op = "predict_approval"

\* C14 (as stated): after a scoring call has loaded the model, later
\* predict_approval calls do not read the model file again, so that a file
\* that cannot be read does not touch them.
C14_Cached ==
    [][AfterScoringCall => result'.err # "load"]_vars

\* C14 (amended): every predict_approval call reads the model file again,
\* also after a call that returned: one that meets a read failure raises
\* and returns no score, and one that does not scores with the model in the
\* file; only the training is skipped.
C14_ReadEveryCall ==
    [][AfterScoringCall =>
          /\ model_file' = model_file
          /\ result'.fault = "read" =>
                 /\ result'.raised
                 /\ result'.err = "load"
                 /\ result'.score = NoScore
          /\ ~result'.raised => result'.variant = model_file.kind]_vars

\* the same call that returned a score has been repeated and failed to read
C14_Witness ==
    /\ result.op = "predict_approval"
    /\ result.again = "same"
    /\ result.fault = "read"
    /\ result.raised
    /\ result.err = "load"
    /\ model_file.kind = "learned"

(***************************************************************************)
(* The four ladders restated over the integers: the numeric fields of a    *)
(* mapping with its integer fields truncated, and the thresholds cleared   *)
(* of their divisions (ratio <= 0.20 is 60 * monthly_debt <= income).      *)
(***************************************************************************)
RefNum(application_data, key) ==
    IF application_data[key][1] = "num" THEN RefTruncated(application_data[key]) ELSE 0

RefCreditMessage(credit_score) ==
    CASE credit_score >= 750 -> "Your excellent credit score is favorable for approval."
      [] credit_score \in 700..749 -> "Your good credit score is a positive factor."
      [] credit_score \in 650..699 -> "Your fair credit score may impact your approval odds."
      [] credit_score \in 600..649 -> "Your below-average credit score is a concern."
      [] OTHER -> "Your credit score is too low for most standard loans."

RefDebtMessage(annual_income, monthly_debt) ==
    CASE annual_income > 0 /\ 60 * monthly_debt <= annual_income ->
             "Your very low debt-to-income ratio strongly favors approval."
      [] annual_income > 0 /\ 60 * monthly_debt > annual_income
                           /\ 100 * monthly_debt <= 3 * annual_income ->
             "Your debt-to-income ratio is within acceptable limits."
      [] annual_income > 0 /\ 100 * monthly_debt > 3 * annual_income
                           /\ 1200 * monthly_debt <= 43 * annual_income ->
             "Your debt-to-income ratio is slightly elevated."
      [] OTHER -> "Your high debt-to-income ratio may limit approval chances."

RefPaymentMessage(loan_amount, loan_term, annual_income) ==
    CASE loan_term > 0 /\ annual_income > 0
           /\ 120 * loan_amount <= annual_income * loan_term ->
             "The proposed loan payment is easily affordable relative to your income."
      [] loan_term > 0 /\ annual_income > 0
           /\ 120 * loan_amount > annual_income * loan_term
           /\ 300 * loan_amount <= 7 * annual_income * loan_term ->
             "The proposed loan payment is reasonably affordable relative to your income."
      [] OTHER -> "The proposed loan payment is high relative to your income."

RefAmountMessage(loan_amount, annual_income) ==
    CASE 2 * loan_amount <= annual_income ->
             "Your requested loan amount is conservative relative to your annual income."
      [] 2 * loan_amount > annual_income /\ loan_amount <= 2 * annual_income ->
             "Your requested loan amount is reasonable relative to your annual income."
      [] OTHER -> "Your requested loan amount is high relative to your annual income."

RefExplanations(application_data) ==
    <<RefCreditMessage(RefNum(application_data, "credit_score")),
      RefDebtMessage(RefNum(application_data, "annual_income"),
                     RefNum(application_data, "monthly_debt")),
      RefPaymentMessage(RefNum(application_data, "loan_amount"),
                        RefNum(application_data, "loan_term"),
                        RefNum(application_data, "annual_income")),
      RefAmountMessage(RefNum(application_data, "loan_amount"),
                       RefNum(application_data, "annual_income"))>>

\* C15: get_model_explanation neither reads nor writes the model file or
\* the history: it leaves both as they are, and the list it returns is the
\* one its data alone determines, whatever model is persisted, if any.
C15_ExplanationIndependent ==
    [][result'.op = "get_model_explanation" =>
          /\ model_file' = model_file
          /\ apps_file' = apps_file
          /\ ~result'.raised =>
                 result'.explanations = RefExplanations(result'.data)]_vars

\* the list has been returned while a learned model is persisted, where a
\* rule-based one would be chosen or the file is unreadable in other runs
C15_Witness ==
    /\ result.op = "get_model_explanation"
    /\ ~result.raised
    /\ Len(result.explanations) = 4
    /\ model_file.kind = "learned"

Explained == result.op = "get_model_explanation" /\ ~result.raised

\* the messages of each ladder
CreditMessages == {RefCreditMessage(c) : c \in {0, 600, 650, 700, 750}}
DebtMessages == {RefDebtMessage(1200, m) : m \in {20, 36, 43, 44}}
PaymentMessages == {RefPaymentMessage(a, 1, 1200) : a \in {10, 28, 29}}
AmountMessages == {RefAmountMessage(a, 2) : a \in {1, 4, 5}}

\* C16: the list has 4 entries in the order credit score, debt-to-income,
\* payment-to-income, loan-to-income: entry k is a message of ladder k,
\* whatever the other inputs are.
C16_FixedOrder ==
    Explained =>
        /\ Len(result.explanations) = 4
        /\ result.explanations[1] \in CreditMessages
        /\ result.explanations[2] \in DebtMessages
        /\ result.explanations[3] \in PaymentMessages
        /\ result.explanations[4] \in AmountMessages

\* the mildest debt message stands before the severest payment message
C16_Witness ==
    /\ Explained
    /\ result.explanations[2] = RefDebtMessage(1200, 20)
    /\ result.explanations[3] = RefPaymentMessage(29, 1, 1200)
    /\ result.explanations[4] = RefAmountMessage(1, 2)

\* C17: the first entry is chosen by credit_score alone, with inclusive
\* lower bounds 750, 700, 650 and 600.
C17_CreditLadder ==
    Explained =>
        result.explanations[1] = RefCreditMessage(RefNum(result.data, "credit_score"))

\* 750 has been given the excellent message
C17_Witness ==
    /\ Explained
    /\ result.data["credit_score"] = Num(750)
    /\ result.explanations[1] = RefCreditMessage(750)
    /\ result.explanations[1] # RefCreditMessage(749)

\* C18: the second entry is chosen by the unclamped ratio of monthly_debt
\* to annual_income / 12, with inclusive upper bounds 0.20, 0.36 and 0.43;
\* annual_income <= 0 gives the high message.
C18_DebtLadder ==
    Explained =>
        result.explanations[2]
            = RefDebtMessage(RefNum(result.data, "annual_income"),
                             RefNum(result.data, "monthly_debt"))

\* a ratio of exactly 0.20 has been given the very-low message
C18_Witness ==
    /\ Explained
    /\ result.data["annual_income"] = Num(12000)
    /\ result.data["monthly_debt"] = Num(200)
    /\ result.explanations[2] = RefDebtMessage(1200, 20)

\* C19: the third entry is chosen by (loan_amount / loan_term) over
\* annual_income / 12, with inclusive upper bounds 0.10 and 0.28; a
\* loan_term or an annual_income that is not positive gives the high message.
C19_PaymentLadder ==
    Explained =>
        result.explanations[3]
            = RefPaymentMessage(RefNum(result.data, "loan_amount"),
                                RefNum(result.data, "loan_term"),
                                RefNum(result.data, "annual_income"))

\* a loan of nothing over a term of 0 has been given the high message
C19_Witness ==
    /\ Explained
    /\ result.data["loan_term"] = Num(0)
    /\ result.data["loan_amount"] = Num(0)
    /\ result.data["annual_income"] = Num(12000)
    /\ result.explanations[3] = RefPaymentMessage(29, 1, 1200)

\* C20: the fourth entry is conservative up to half the annual income,
\* reasonable up to twice it and high above; with annual_income = 0 every
\* positive loan_amount is high.
C20_AmountLadder ==
    Explained =>
        /\ result.explanations[4]
               = RefAmountMessage(RefNum(result.data, "loan_amount"),
                                  RefNum(result.data, "annual_income"))
        /\ (/\ RefNum(result.data, "annual_income") = 0
            /\ RefNum(result.data, "loan_amount") > 0)
               => result.explanations[4] = RefAmountMessage(5, 2)

\* a positive loan amount against an income of 0 has been given the high
\* message
C20_Witness ==
    /\ Explained
    /\ result.data["annual_income"] = Num(0)
    /\ result.data["loan_amount"] = Num(3600)
    /\ result.explanations[4] = RefAmountMessage(5, 2)

\* the rule-based scorer has scored the application of the worked example
ExampleScored == RuleScored /\ result.data = BaseApp

\* C21: for loan_amount 10000, loan_term 3, annual_income 50000,
\* employment_length 1, credit_score 700 and monthly_debt 1000 the
\* rule-based scorer computes dti_ratio 0.24, loan_to_income 0.2,
\* credit_factor 0.8, dti_factor 0.76, lti_factor 0.8 and probability 0.894,
\* and the score is 89.
C21_WorkedExample ==
    ExampleScored =>
        /\ dti_ratio_of(monthly_income_of(features_of(result.data).annual_income),
                        features_of(result.data).monthly_debt) = <<6, 25>>
        /\ loan_to_income_of(features_of(result.data).loan_amount,
                             features_of(result.data).annual_income) = <<1, 5>>
        /\ credit_factor_of(features_of(result.data).credit_score) = <<4, 5>>
        /\ dti_factor_of(<<6, 25>>) = <<19, 25>>
        /\ lti_factor_of(<<1, 5>>) = <<4, 5>>
        /\ predict_proba(features_of(result.data)) = <<447, 500>>
        /\ result.score = <<89>>

\* the example has been scored
C21_Witness == ExampleScored /\ result.score = <<89>>

\* the probability before the two clamps of line 85
UnclampedProb(X) ==
    combine(credit_factor_of(X.credit_score),
            dti_factor_of(dti_ratio_of(monthly_income_of(X.annual_income),
                                       X.monthly_debt)),
            lti_factor_of(loan_to_income_of(X.loan_amount, X.annual_income)))

\* C22: the rule-based score is never below 50: the probability before the
\* clamp is at least 0.5, the lower clamp at 0.05 is never the active bound,
\* and the score lies in 50..95.
C22_AtLeastFifty ==
    RuleScored =>
        /\ result.score[1] \in 50..95
        /\ RLe(Rat(1, 2), UnclampedProb(features_of(result.data)))
        /\ predict_proba(features_of(result.data))
               = RMin(Rat(19, 20), UnclampedProb(features_of(result.data)))

\* a score of exactly 50: every factor is 0
C22_Witness ==
    /\ RuleScored
    /\ result.score = <<50>>
    /\ RefField(result.data, "credit_score") < 300

\* C23: whenever the model file exists at the start of a predict_approval
\* call it holds a complete, loadable model: a persist that failed has left
\* no file that the existence check accepts.
C23_ExistingFileLoads ==
    [][(result'.op = "predict_approval" /\ ModelFileExists(model_file))
           => LoadableModel(model_file)]_vars

\* C25: a decision is final: once a stored application is approved or
\* rejected, no later update_application_status call changes its status,
\* decision_by or decision_date.
C25_DecisionFinal ==
    [][\A i \in 1..Len(apps_file.rows) :
          IsDecided(apps_file.rows[i])
             => /\ i <= Len(apps_file'.rows)
                /\ apps_file'.rows[i].status = apps_file.rows[i].status
                /\ apps_file'.rows[i].decision_by = apps_file.rows[i].decision_by
                /\ apps_file'.rows[i].decision_date = apps_file.rows[i].decision_date]_vars

\* C24: when predict_approval calls of two sessions interleave while no
\* model is persisted, neither call loads an empty or partly written model
\* file, at most one of them writes the file, and both score with the same
\* variant.
C24_RaceFree ==
    /\ \A s \in Sessions : inflight[s].err # "load"
    /\ ~\A s \in Sessions : inflight[s].wrote
    /\ \A s, t \in Sessions :
          (inflight[s].variant # "" /\ inflight[t].variant # "")
             => inflight[s].variant = inflight[t].variant

\* C26: no stored application is lost or reverted when save_application and
\* update_application_status calls of different sessions interleave: every
\* record in the file is still in it after any step, and a recorded decision
\* is not undone.
C26_NothingLost ==
    [][\A i \in 1..Len(apps_file.rows) :
          \E j \in 1..Len(apps_file'.rows) :
              /\ apps_file'.rows[j].application_id = apps_file.rows[i].application_id
              /\ IsDecided(apps_file.rows[i]) => IsDecided(apps_file'.rows[j])]_vars

\* the record a Submit click has just stored
SubmittedRow == apps_file'.rows[Len(apps_file'.rows)]

\* C27: the model_score stored with a submitted application is the score
\* predict_approval gives for the six feature values stored with it, whatever
\* Next and Previous clicks and field edits came before the Submit.
C27_StoredScoreCurrent ==
    [][(result'.op = "page" /\ result'.click = "submit" /\ apps_file' # apps_file)
          => /\ ~score_with(model_file, SubmittedRow.data).raised
             /\ SubmittedRow.data["model_score"]
                   = Num(score_with(model_file, SubmittedRow.data).score[1])]_vars

\* an application whose credit score was moved off the slider's default has
\* been submitted with the score of the moved value
C27_Witness ==
    /\ result.op = "page" /\ result.click = "submit" /\ ~result.raised
    /\ Len(apps_file.rows) > 0
    /\ apps_file.rows[Len(apps_file.rows)].application_date = "now"
    /\ apps_file.rows[Len(apps_file.rows)].data["credit_score"] = Num(600)
    /\ apps_file.rows[Len(apps_file.rows)].data["model_score"]
          = Num(score_with(model_file, apps_file.rows[Len(apps_file.rows)].data).score[1])
    /\ apps_file.rows[Len(apps_file.rows)].data["model_score"] # Num(0)

\* the button of the page run is rendered at this step and is not disabled
NextEnabled(step, w) ==
    \/ step = 0 /\ w.filled
    \/ step = 1 /\ w.loan_amount > 0 /\ w.loan_term > 0 /\ w.filled
    \/ step = 2 /\ w.filled

\* C28: from a fresh session, a click on an enabled Next raises the step by
\* one (at the financial step: when the scoring call returns), a click on
\* Previous lowers it by one, the step stays within 0..3, and Submit, which
\* is possible only at step 3, resets the step to 0 and empties
\* temp_application.
C28_StepsFromFresh ==
    [][result'.op = "page"
          => /\ current_step(session_state') \in 0..3
             /\ (/\ result'.click = "next"
                 /\ NextEnabled(result'.step, result'.args[1])
                 /\ result'.step = 2 => ~result'.raised)
                    => /\ ~result'.raised
                       /\ current_step(session_state') = result'.step + 1
             /\ (result'.click = "prev" /\ result'.step \in 1..3)
                    => /\ ~result'.raised
                       /\ current_step(session_state') = result'.step - 1
             /\ (result'.click = "submit" /\ result'.step = 3
                     /\ result'.args[1].terms_agreed)
                    => /\ current_step(session_state') = 0
                       /\ session_state'.temp_application = NoData
             /\ (result'.click = "submit" /\ result'.step # 3)
                    => /\ session_state'.application_step = session_state.application_step
                       /\ apps_file' = apps_file]_vars

UsernameStored(username) ==
    \E i \in 1..Len(users_file.rows) : users_file.rows[i].username = username

\* C30: usernames are unique in the user store after any sequence of
\* create_user calls: a call with a username the store already holds returns
\* False and leaves the store as it is, any other call appends exactly that
\* user and returns True; and authenticate_user succeeds only for a
\* username, user type and password given at creation.
C30_UniqueUsers ==
    [][/\ result'.op = "create_user"
          => /\ IF UsernameStored(result'.args[1])
                THEN ~result'.returned /\ users_file' = users_file
                ELSE /\ result'.returned
                     /\ users_file'.rows =
                           Append(users_file.rows,
                                  UserRow(result'.args[1],
                                          hash_password(result'.args[2]),
                                          result'.args[3]))
             /\ \A i, j \in 1..Len(users_file'.rows) :
                   users_file'.rows[i].username = users_file'.rows[j].username
                      => i = j
       /\ (result'.op = "authenticate_user" /\ result'.returned)
          => \E i \in 1..Len(users_file.rows) :
                users_file.rows[i] = UserRow(result'.args[1],
                                             hash_password(result'.args[2]),
                                             result'.args[3])]_vars

====
